---- MODULE Spec2Model ----
(***************************************************************************)
(* Model of components/spi_flash/partition.c: the lazily loaded, process-  *)
(* wide partition list, its loader, and the filtered iterator over it.     *)
(*                                                                         *)
(* Pointers are modelled as small naturals: 0 is NULL, a list item         *)
(* allocated for the descriptor in flash slot i has address i.  Each       *)
(* caller (task) owns one handle variable; the cursor object it points to  *)
(* carries its allocation state so that leaks, double frees and accesses   *)
(* to freed memory are observable.                                         *)
(***************************************************************************)
EXTENDS Integers, Sequences, FiniteSets, TLC

\* ------------------------------------------------------------------ bounds
\* number of descriptor slots the scan may visit (stands for
\* SPI_FLASH_SEC_SIZE / sizeof(esp_partition_info_t))
MaxSlots == 3
\* saturation value of the observation counter of successful loads
MaxLoads == 2

\* ------------------------------------------------------- program constants
\* the magic of a valid descriptor (esp_flash_data_types.h)
ESP_PARTITION_MAGIC == 20650
\* sizeof(it->label), the on-flash label field
LabelFieldSize == 16
\* the minor type 0xff that matches every subtype
WILDCARD_MINOR == 255
\* flash address of the partition table (esp_flash_data_types.h)
ESP_PARTITION_TABLE_ADDR == 16384
\* bytes of one flash sector (esp_spi_flash.h)
SPI_FLASH_SEC_SIZE == 4096
\* sizeof(esp_partition_info_t)
DescriptorSize == 32

NULL == 0
\* the two tasks that call the partition API concurrently
Callers == {1, 2}
Slots == 1..MaxSlots

VARIABLES
    flash,      \* the descriptor slots of the on-flash table (read-only)
    taddr,      \* ESP_PARTITION_TABLE_ADDR of the build (read-only)
    head,       \* s_partition_list.slh_first
    item,       \* heap of partition_list_item_t: address -> [info, next]
    lock,       \* s_partition_list_lock: 0 when free, else the holder
    pc,         \* per caller: position in the code
    op,         \* per caller: the public function being executed
    args,       \* per caller: (type, label) arguments of find / find_first
    lit,        \* per caller: load_partitions' descriptor pointer `it`
    mapped,     \* per caller: a spi_flash_mmap handle is outstanding
    err,        \* per caller: esp_err_t err of esp_partition_find
    it,         \* per caller: the cursor object behind the caller's handle
    hs,         \* per caller: what the caller's handle variable is
    ret,        \* per caller: what the last find / next / find_first returned
    yielded,    \* per caller: item addresses the current cursor was positioned on
    start,      \* per caller: SLIST_FIRST as read by iterator_create
    loads       \* number of load_partitions calls that returned ESP_OK (saturating)

vars == <<flash, taddr, head, item, lock, pc, op, args, lit, mapped, err, it, hs, ret,
          yielded, start, loads>>

\* ------------------------------------------------------------ byte strings
Zeros(n) == [i \in 1..n |-> 0]

\* a label as stored in the 16-byte on-flash field
Pad(s) == s \o Zeros(LabelFieldSize - Len(s))

\* index of the first NUL of a byte array, Len+1 when it has none
FirstNul(a) ==
    IF \E i \in 1..Len(a) : a[i] = 0
    THEN CHOOSE i \in 1..Len(a) : a[i] = 0 /\ \A j \in 1..(i - 1) : a[j] # 0
    ELSE Len(a) + 1

\* the C string held in a byte array: the bytes before the first NUL
CStr(a) == SubSeq(a, 1, FirstNul(a) - 1)

\* strncpy(dst, src, n): copies up to the first NUL, pads dst with NULs to n
Strncpy(src, n) ==
    [i \in 1..n |-> IF i < FirstNul(src) /\ i <= Len(src) THEN src[i] ELSE 0]

\* strcmp on NUL-terminated arrays: difference at the first differing byte
RECURSIVE StrcmpFrom(_, _, _)
StrcmpFrom(a, b, i) ==
    LET x == IF i <= Len(a) THEN a[i] ELSE 0
        y == IF i <= Len(b) THEN b[i] ELSE 0
    IN  IF x # y THEN x - y
        ELSE IF x = 0 THEN 0
        ELSE StrcmpFrom(a, b, i + 1)

Strcmp(a, b) == StrcmpFrom(a, b, 1)

\* ------------------------------------------------------------------- flash
Descriptor(m, t, s, off, sz, l) ==
    [magic |-> m, type |-> t, subtype |-> s,
     pos |-> [offset |-> off, size |-> sz], label |-> l]

LabelA == Pad(<<97>>)
LabelFull == [i \in 1..LabelFieldSize |-> 99]

\* the descriptors a slot may hold
SlotValues ==
    { Descriptor(ESP_PARTITION_MAGIC, 0, 0, 65536, 4096, LabelA),
      Descriptor(ESP_PARTITION_MAGIC, 0, 1, 69632, 8192, LabelFull),
      Descriptor(65535, 0, 0, 65536, 4096, LabelA) }

\* label fields for the label copy: 15 characters and a terminator, and a
\* short string followed by bytes that are not NUL
Label15 == Pad([i \in 1..(LabelFieldSize - 1) |-> 98])
LabelJunk == <<97, 0>> \o [i \in 1..(LabelFieldSize - 2) |-> 100]

LabelValues == {LabelA, LabelFull, Label15, LabelJunk}

\* the descriptors a slot may hold when the label copy is examined
LabelSlotValues ==
    { Descriptor(ESP_PARTITION_MAGIC, 0, 0, 65536, 4096, l) : l \in LabelValues }
    \cup { Descriptor(65535, 0, 0, 65536, 4096, LabelA) }

\* requested labels: << >> is a NULL label pointer, <<s>> a pointer to string s
NoLabel == << >>
StrA == << <<97, 0>> >>

\* the (type, label) arguments callers pass; a type is (major << 8) | minor
Filters == { <<255, NoLabel>>, <<1, NoLabel>>, <<255, StrA>>, <<511, NoLabel>> }

\* ----------------------------------------------------------------- helpers
get_major_type(type) == (type \div 256) % 256

get_minor_type(type) == type % 256

SLIST_EMPTY == head = NULL

SLIST_FIRST == head

SLIST_NEXT(p) == item[p].next

\* the list as the sequence of item addresses reachable from p
RECURSIVE ListFrom(_)
ListFrom(p) == IF p = NULL THEN << >> ELSE <<p>> \o ListFrom(item[p].next)

PartitionList == ListFrom(head)

\* a cursor object: mem is its allocation state, ub records a use of its
\* memory after it was freed ("uaf": read or written, "dfree": freed again)
NoCursor == [mem |-> "null", ub |-> "none", type |-> 0, label |-> NoLabel,
             next_item |-> NULL, info |-> NULL]

NoArgs == [type |-> 0, label |-> NoLabel]

\* an unallocated heap cell
NoItem == [alloc |-> FALSE,
           info |-> [address |-> 0, size |-> 0, type |-> 0, encrypted |-> FALSE,
                     label |-> Zeros(LabelFieldSize + 1)],
           next |-> NULL]

Allocated == { a \in Slots : item[a].alloc }

Min(a, b) == IF a < b THEN a ELSE b

\* ---------------------------------------------------------- mapped region
\* lines 188-189: the region passed to spi_flash_mmap starts at
\* ESP_PARTITION_TABLE_ADDR & 0xffff0000 and is SPI_FLASH_SEC_SIZE long
MapBase == (taddr \div 65536) * 65536

MapEnd == MapBase + SPI_FLASH_SEC_SIZE

\* lines 194-195: byte offset of the first descriptor from the mapped
\* pointer, (ESP_PARTITION_TABLE_ADDR & 0xffff) / sizeof(*ptr) words of 4 bytes
TableOffset == ((taddr % 65536) \div 4) * 4

\* flash address of descriptor slot i (1-based), the i-th value of it
SlotAddr(i) == MapBase + TableOffset + (i - 1) * DescriptorSize

\* table addresses a build may be configured with
TableAddrs == {0, 16384, 32768, 65536}

\* ------------------------------------------------------------------ loader
\* (mutant) the label copy stops one byte short of the on-flash field
ParseItemShortCopy(d) ==
    [address   |-> d.pos.offset,
     size      |-> d.pos.size,
     type      |-> (d.type * 256) + d.subtype,
     encrypted |-> FALSE,
     label     |-> Strncpy(d.label, LabelFieldSize - 1) \o <<0, 0>>]

\* the esp_partition_t built from one valid descriptor
ParseItem(d) ==
    [address   |-> d.pos.offset,
     size      |-> d.pos.size,
     type      |-> (d.type * 256) + d.subtype,
     encrypted |-> FALSE,
     label     |-> Strncpy(d.label, LabelFieldSize) \o <<0>>]

\* SLIST_INSERT_HEAD(&s_partition_list, elm, next): the new <<head, item>>
InsertHead(a, info) ==
    <<a, [item EXCEPT ![a] = [alloc |-> TRUE, info |-> info, next |-> head]]>>

\* SLIST_INSERT_AFTER(last, elm, next): the new <<head, item>>
InsertAfter(last, a, info) ==
    <<head, [item EXCEPT ![a] = [alloc |-> TRUE, info |-> info,
                                 next |-> item[last].next],
                         ![last].next = a]>>

\* one pass of the loop body of load_partitions for the valid descriptor in
\* slot a; `last` is the local of line 198, which no statement of the loop
\* assigns
AddItem(a) ==
    LET last == NULL
    IN  IF last = NULL
        THEN InsertHead(a, ParseItem(flash[a]))
        ELSE InsertAfter(last, a, ParseItem(flash[a]))

\* (mutant) a descriptor with a wrong magic does not end the scan
ScanEndsAtLimitOnly(a) == a = MaxSlots + 1

\* the loop of load_partitions stops at slot a
ScanEnds(a) == a = MaxSlots + 1 \/ flash[a].magic # ESP_PARTITION_MAGIC

\* ----------------------------------------------------------------- matcher
\* (mutant) the requested minor 0xff is compared like any other minor
MatchesNoWildcard(type, label, a) ==
    LET p == item[a].info
    IN  /\ ~(get_major_type(type) # get_major_type(p.type))
        /\ ~(get_minor_type(type) # get_minor_type(p.type))
        /\ ~(label # NoLabel /\ Strcmp(label[1], p.label) # 0)

\* the three `continue` tests of esp_partition_next against item a
Matches(type, label, a) ==
    LET p == item[a].info
    IN  /\ ~(get_major_type(type) # get_major_type(p.type))
        /\ ~(get_minor_type(type) # WILDCARD_MINOR
             /\ get_minor_type(type) # get_minor_type(p.type))
        /\ ~(label # NoLabel /\ Strcmp(label[1], p.label) # 0)

\* the for loop of esp_partition_next: the first matching item from a on
RECURSIVE ScanFrom(_, _, _)
ScanFrom(type, label, a) ==
    IF a = NULL THEN NULL
    ELSE IF Matches(type, label, a) THEN a
    ELSE ScanFrom(type, label, SLIST_NEXT(a))

\* free(iterator) applied to cursor object c (free(NULL) does nothing)
Free(c) ==
    IF c.mem = "null" THEN c
    ELSE [c EXCEPT !.mem = "freed",
                   !.ub = IF c.mem = "freed" /\ c.ub = "none" THEN "dfree" ELSE c.ub]

\* the contents of a cursor the caller released are of no further interest
Scrub(c) == [NoCursor EXCEPT !.mem = c.mem, !.ub = c.ub]

\* what the memory of a freed cursor may hold when it is read again
FreedContents(c) ==
    { [mem |-> "freed", ub |-> "uaf", type |-> f[1], label |-> f[2],
       next_item |-> n, info |-> c.info] :
        f \in Filters, n \in {NULL} \cup Allocated }

\* --------------------------------------------------------- call and return
\* the cursor object once the public function o has returned r
CursorAtReturn(o, r, c) ==
    IF o = "find_first" /\ r = "it" THEN Free(c) ELSE c

\* the caller's handle once the public function o has returned r
HandleAtReturn(o, r) ==
    CASE o = "find"       -> IF r = "it" THEN "live" ELSE "none"
      [] o = "next"       -> IF r = "it" THEN "live" ELSE "exhausted"
      [] o = "find_first" -> "none"

\* what the caller receives
ResultAtReturn(o, r) ==
    IF o = "find_first" /\ r = "it" THEN "rec" ELSE r

\* esp_partition_next returns r (and with it find / find_first)
Return(p, r, c) ==
    /\ pc' = [pc EXCEPT ![p] = "idle"]
    /\ op' = [op EXCEPT ![p] = "none"]
    /\ it' = [it EXCEPT ![p] = CursorAtReturn(op[p], r, c)]
    /\ hs' = [hs EXCEPT ![p] = HandleAtReturn(op[p], r)]
    /\ ret' = [ret EXCEPT ![p] = ResultAtReturn(op[p], r)]

\* -------------------------------------------------------------------- Init
\* the state before the first call, apart from the flash contents and the
\* table address
Boot ==
    /\ head = NULL
    /\ item = [a \in Slots |-> NoItem]
    /\ lock = 0
    /\ pc = [p \in Callers |-> "idle"]
    /\ op = [p \in Callers |-> "none"]
    /\ args = [p \in Callers |-> NoArgs]
    /\ lit = [p \in Callers |-> 0]
    /\ mapped = [p \in Callers |-> FALSE]
    /\ err = [p \in Callers |-> "ESP_OK"]
    /\ it = [p \in Callers |-> NoCursor]
    /\ hs = [p \in Callers |-> "none"]
    /\ ret = [p \in Callers |-> "-"]
    /\ yielded = [p \in Callers |-> << >>]
    /\ start = [p \in Callers |-> NULL]
    /\ loads = 0

Init ==
    /\ flash \in [Slots -> SlotValues]
    /\ taddr = ESP_PARTITION_TABLE_ADDR
    /\ Boot

\* ----------------------------------------------------- esp_partition_find
\* entry of esp_partition_find / esp_partition_find_first and the unlocked
\* emptiness test of line 70
CallFind(p, o, t, l) ==
    /\ pc[p] = "idle"
    /\ hs[p] # "live" \/ it[p].ub # "none"
    /\ op' = [op EXCEPT ![p] = o]
    /\ args' = [args EXCEPT ![p] = [type |-> t, label |-> l]]
    /\ it' = [it EXCEPT ![p] = NoCursor]
    /\ hs' = [hs EXCEPT ![p] = "none"]
    /\ ret' = [ret EXCEPT ![p] = "-"]
    /\ yielded' = [yielded EXCEPT ![p] = << >>]
    /\ start' = [start EXCEPT ![p] = NULL]
    /\ pc' = [pc EXCEPT ![p] = IF SLIST_EMPTY THEN "f72" ELSE "f84"]
    /\ UNCHANGED <<flash, taddr, head, item, lock, lit, mapped, err, loads>>

\* (mutant) the caller does not wait for s_partition_list_lock
LockWithoutWait(p) ==
    /\ pc[p] = "f72"
    /\ lock' = p
    /\ err' = [err EXCEPT ![p] = "ESP_OK"]
    /\ pc' = [pc EXCEPT ![p] = IF SLIST_EMPTY THEN "l188" ELSE "f77"]
    /\ UNCHANGED <<flash, taddr, head, item, op, args, lit, mapped, it, hs, ret,
                   yielded, start, loads>>

\* (mutant) the emptiness test is not repeated under the lock
LockWithoutRecheck(p) ==
    /\ pc[p] = "f72"
    /\ lock = 0
    /\ lock' = p
    /\ err' = [err EXCEPT ![p] = "ESP_OK"]
    /\ pc' = [pc EXCEPT ![p] = "l188"]
    /\ UNCHANGED <<flash, taddr, head, item, op, args, lit, mapped, it, hs, ret,
                   yielded, start, loads>>

\* lines 72-76: take the lock and test emptiness again
LockAndRecheck(p) ==
    /\ pc[p] = "f72"
    /\ lock = 0
    /\ lock' = p
    /\ err' = [err EXCEPT ![p] = "ESP_OK"]
    /\ pc' = [pc EXCEPT ![p] = IF SLIST_EMPTY THEN "l188" ELSE "f77"]
    /\ UNCHANGED <<flash, taddr, head, item, op, args, lit, mapped, it, hs, ret,
                   yielded, start, loads>>

\* lines 188-196: spi_flash_mmap succeeds or fails
Mmap(p, ok) ==
    /\ pc[p] = "l188"
    /\ IF ok
       THEN /\ mapped' = [mapped EXCEPT ![p] = TRUE]
            /\ lit' = [lit EXCEPT ![p] = 1]
            /\ pc' = [pc EXCEPT ![p] = "l199"]
            /\ err' = err
       ELSE /\ err' = [err EXCEPT ![p] = "ESP_FAIL"]
            /\ pc' = [pc EXCEPT ![p] = "f77"]
            /\ UNCHANGED <<mapped, lit>>
    /\ UNCHANGED <<flash, taddr, head, item, lock, op, args, it, hs, ret, yielded,
                   start, loads>>

\* lines 199-218: one iteration of the descriptor loop
LoadStep(p) ==
    /\ pc[p] = "l199"
    /\ IF ScanEnds(lit[p])
       THEN /\ pc' = [pc EXCEPT ![p] = "l219"]
            /\ UNCHANGED <<head, item, lit>>
       ELSE /\ head' = AddItem(lit[p])[1]
            /\ item' = AddItem(lit[p])[2]
            /\ lit' = [lit EXCEPT ![p] = lit[p] + 1]
            /\ pc' = pc
    /\ UNCHANGED <<flash, taddr, lock, op, args, mapped, err, it, hs, ret, yielded,
                   start, loads>>

\* (mutant) load_partitions returns ESP_OK without spi_flash_munmap
MunmapSkipped(p) ==
    /\ pc[p] = "l219"
    /\ mapped' = mapped
    /\ err' = [err EXCEPT ![p] = "ESP_OK"]
    /\ loads' = Min(loads + 1, MaxLoads)
    /\ pc' = [pc EXCEPT ![p] = "f77"]
    /\ UNCHANGED <<flash, taddr, head, item, lock, lit, op, args, it, hs, ret, yielded,
                   start>>

\* lines 219-220: unmap and return ESP_OK
Munmap(p) ==
    /\ pc[p] = "l219"
    /\ mapped' = [mapped EXCEPT ![p] = FALSE]
    /\ err' = [err EXCEPT ![p] = "ESP_OK"]
    /\ loads' = Min(loads + 1, MaxLoads)
    /\ pc' = [pc EXCEPT ![p] = "f77"]
    /\ UNCHANGED <<flash, taddr, head, item, lock, lit, op, args, it, hs, ret, yielded,
                   start>>

\* (mutant) the result of the load is not tested after the lock is released
UnlockIgnoresErr(p) ==
    /\ pc[p] = "f77"
    /\ lock' = 0
    /\ err' = [err EXCEPT ![p] = "ESP_OK"]
    /\ lit' = [lit EXCEPT ![p] = 0]
    /\ pc' = [pc EXCEPT ![p] = "f84"]
    /\ UNCHANGED <<op, it, hs, ret, args>>
    /\ UNCHANGED <<flash, taddr, head, item, mapped, yielded, start, loads>>

\* lines 77-80: release the lock; a failed load returns NULL.  The locals
\* of the locked block are dead from here on.
Unlock(p) ==
    /\ pc[p] = "f77"
    /\ lock' = 0
    /\ err' = [err EXCEPT ![p] = "ESP_OK"]
    /\ lit' = [lit EXCEPT ![p] = 0]
    /\ IF err[p] # "ESP_OK"
       THEN /\ Return(p, "NULL", it[p])
            /\ args' = [args EXCEPT ![p] = NoArgs]
       ELSE /\ pc' = [pc EXCEPT ![p] = "f84"]
            /\ UNCHANGED <<op, it, hs, ret, args>>
    /\ UNCHANGED <<flash, taddr, head, item, mapped, yielded, start, loads>>

\* lines 84-86 and 93-97: iterator_create, then the entry test of
\* esp_partition_next
IteratorCreate(p) ==
    /\ pc[p] = "f84"
    /\ LET c == [mem |-> "alloc", ub |-> "none", type |-> args[p].type, label |-> args[p].label,
                 next_item |-> SLIST_FIRST, info |-> NULL]
       IN  IF c.next_item = NULL
           THEN Return(p, "NULL", c)
           ELSE /\ it' = [it EXCEPT ![p] = c]
                /\ pc' = [pc EXCEPT ![p] = "n100"]
                /\ UNCHANGED <<op, hs, ret>>
    /\ start' = [start EXCEPT ![p] = SLIST_FIRST]
    /\ args' = [args EXCEPT ![p] = NoArgs]
    /\ UNCHANGED <<flash, taddr, head, item, lock, lit, mapped, err, yielded, loads>>

\* ----------------------------------------------------- esp_partition_next
\* lines 93-97: the entry test of esp_partition_next on the caller's handle;
\* a cursor whose memory was freed is read as whatever that memory now holds
NextEntry(p) ==
    /\ pc[p] = "idle"
    /\ it[p].ub = "none"
    /\ \E c \in (IF it[p].mem = "freed" THEN FreedContents(it[p]) ELSE {it[p]}) :
         /\ IF c.next_item = NULL
            THEN /\ pc' = [pc EXCEPT ![p] = "idle"]
                 /\ it' = [it EXCEPT ![p] = c]
                 /\ hs' = [hs EXCEPT ![p] = HandleAtReturn("next", "NULL")]
                 /\ ret' = [ret EXCEPT ![p] = "NULL"]
                 /\ op' = op
            ELSE /\ it' = [it EXCEPT ![p] = c]
                 /\ pc' = [pc EXCEPT ![p] = "n100"]
                 /\ op' = [op EXCEPT ![p] = "next"]
                 /\ UNCHANGED <<hs, ret>>
    /\ UNCHANGED <<flash, taddr, head, item, lock, args, lit, mapped, err, yielded,
                   start, loads>>

\* esp_partition_next on a cursor that find or next returned
CallNext(p) ==
    /\ hs[p] = "live"
    /\ NextEntry(p)

\* esp_partition_next on a cursor for which next already returned NULL
NextAfterNone(p) ==
    /\ hs[p] = "exhausted"
    /\ NextEntry(p)

\* line 100
NextLock(p) ==
    /\ pc[p] = "n100"
    /\ lock = 0
    /\ lock' = p
    /\ pc' = [pc EXCEPT ![p] = "n101"]
    /\ UNCHANGED <<flash, taddr, head, item, op, args, lit, mapped, err, it, hs, ret,
                   yielded, start, loads>>

\* (mutant) esp_partition_next returns the cursor without setting it->info
NextScanNoInfo(p) ==
    /\ pc[p] = "n101"
    /\ lock' = 0
    /\ LET c == it[p]
           q == ScanFrom(c.type, c.label, c.next_item)
       IN  IF q = NULL
           THEN /\ Return(p, "NULL", Free([c EXCEPT !.next_item = NULL]))
                /\ UNCHANGED yielded
           ELSE /\ Return(p, "it", [c EXCEPT !.next_item = SLIST_NEXT(q)])
                /\ yielded' = [yielded EXCEPT ![p] = Append(yielded[p], q)]
    /\ UNCHANGED <<flash, taddr, head, item, args, lit, mapped, err, start, loads>>

\* (mutant) esp_partition_next returns without _lock_release
NextScanKeepsLock(p) ==
    /\ pc[p] = "n101"
    /\ lock' = lock
    /\ LET c == it[p]
           q == ScanFrom(c.type, c.label, c.next_item)
       IN  IF q = NULL
           THEN /\ Return(p, "NULL", Free([c EXCEPT !.next_item = NULL]))
                /\ UNCHANGED yielded
           ELSE /\ Return(p, "it", [c EXCEPT !.info = q, !.next_item = SLIST_NEXT(q)])
                /\ yielded' = [yielded EXCEPT ![p] = Append(yielded[p], q)]
    /\ UNCHANGED <<flash, taddr, head, item, args, lit, mapped, err, start, loads>>

\* lines 101-124: scan to the next match, unlock, release or position
NextScan(p) ==
    /\ pc[p] = "n101"
    /\ lock' = 0
    /\ LET c == it[p]
           q == ScanFrom(c.type, c.label, c.next_item)
       IN  IF q = NULL
           THEN /\ Return(p, "NULL", Free([c EXCEPT !.next_item = NULL]))
                /\ UNCHANGED yielded
           ELSE /\ Return(p, "it", [c EXCEPT !.info = q, !.next_item = SLIST_NEXT(q)])
                /\ yielded' = [yielded EXCEPT ![p] = Append(yielded[p], q)]
    /\ UNCHANGED <<flash, taddr, head, item, args, lit, mapped, err, start, loads>>

\* ------------------------------------------- esp_partition_iterator_release
\* lines 138-142 on the caller's handle; the observations of the cursor's
\* enumeration end with it
ReleaseHandle(p) ==
    /\ pc[p] = "idle"
    /\ it[p].ub = "none"
    /\ IF hs[p] = "none"
       THEN UNCHANGED <<it, hs, ret, yielded, start>>
       ELSE /\ it' = [it EXCEPT ![p] = Scrub(Free(it[p]))]
            /\ hs' = [hs EXCEPT ![p] = "released"]
            /\ ret' = [ret EXCEPT ![p] = "-"]
            /\ yielded' = [yielded EXCEPT ![p] = << >>]
            /\ start' = [start EXCEPT ![p] = NULL]
    /\ UNCHANGED <<flash, taddr, head, item, lock, pc, op, args, lit, mapped, err, loads>>

\* release of a NULL handle or of a cursor the caller holds
Release(p) ==
    /\ hs[p] \in {"none", "live"}
    /\ ReleaseHandle(p)

\* release of a cursor that next returned NULL for, or that was released before
ReleaseAgain(p) ==
    /\ hs[p] \in {"exhausted", "released"}
    /\ ReleaseHandle(p)

\* ------------------------------------------------------------- accessors
\* the fields the accessors read through the cursor's info pointer
AccessorFields == {"type", "size", "address", "label"}

\* lines 144-168 on a cursor the caller holds: esp_partition_get returns
\* it->info, the other accessors dereference it; dereferencing NULL is a
\* fault that ends the caller
Accessor(p, f) ==
    /\ pc[p] = "idle"
    /\ hs[p] = "live"
    /\ it[p].ub = "none"
    /\ pc' = [pc EXCEPT ![p] = IF f \in AccessorFields /\ it[p].info = NULL
                                THEN "fault" ELSE "idle"]
    /\ UNCHANGED <<flash, taddr, head, item, lock, op, args, lit, mapped, err, it,
                   hs, ret, yielded, start, loads>>

\* the steps of caller p
Step(p) ==
    \/ \E o \in {"find", "find_first"}, f \in Filters :
          CallFind(p, o, f[1], f[2])
    \/ LockAndRecheck(p)
    \/ \E ok \in BOOLEAN : Mmap(p, ok)
    \/ LoadStep(p)
    \/ Munmap(p)
    \/ Unlock(p)
    \/ IteratorCreate(p)
    \/ CallNext(p)
    \/ NextLock(p)
    \/ NextScan(p)
    \/ Release(p)
    \/ \E f \in AccessorFields \cup {"get"} : Accessor(p, f)

Next == \E p \in Callers : Step(p)

Spec == Init /\ [][Next]_vars

\* one caller, every content of the label field
InitLabels ==
    /\ flash \in [Slots -> LabelSlotValues]
    /\ taddr = ESP_PARTITION_TABLE_ADDR
    /\ Boot

NextOne == Step(1)

SpecLabels == InitLabels /\ [][NextOne]_vars

\* the steps of caller p inside a call that do not wait for the lock
Running(p) ==
    \/ \E ok \in BOOLEAN : Mmap(p, ok)
    \/ LoadStep(p)
    \/ Munmap(p)
    \/ Unlock(p)
    \/ IteratorCreate(p)
    \/ NextScan(p)

\* fair scheduling: a caller inside a call keeps running, and a caller
\* waiting in _lock_acquire gets the lock if it is released again and again
Fairness ==
    \A p \in Callers :
        /\ WF_vars(Running(p))
        /\ SF_vars(LockAndRecheck(p))
        /\ SF_vars(NextLock(p))

\* the descriptors a slot may hold when termination is examined
FairSlotValues ==
    { Descriptor(ESP_PARTITION_MAGIC, 0, 0, 65536, 4096, LabelA),
      Descriptor(65535, 0, 0, 65536, 4096, LabelA) }

InitFair ==
    /\ flash \in [Slots -> FairSlotValues]
    /\ taddr = ESP_PARTITION_TABLE_ADDR
    /\ Boot

SpecFair == InitFair /\ [][Next]_vars /\ Fairness

\* one caller, every table address
InitAddr ==
    /\ flash \in [Slots -> SlotValues]
    /\ taddr \in TableAddrs
    /\ Boot

SpecAddr == InitAddr /\ [][NextOne]_vars

\* callers that also use a cursor after it was exhausted or released
Misuse ==
    \E p \in Callers :
        \/ NextAfterNone(p)
        \/ ReleaseAgain(p)

NextMisuse == Next \/ Misuse

SpecMisuse == Init /\ [][NextMisuse]_vars

\* ------------------------------------------------------------------ claims
\* number of leading descriptor slots with the expected magic
ValidCount ==
    Cardinality({ n \in Slots : \A i \in 1..n : flash[i].magic = ESP_PARTITION_MAGIC })

\* the matcher as the specification words it, on a partition record
Satisfies(type, label, info) ==
    /\ info.type \div 256 = (type \div 256) % 256
    /\ (type % 256 = 255 \/ info.type % 256 = type % 256)
    /\ (label = NoLabel \/ CStr(label[1]) = CStr(info.label))

\* the items of the list that satisfy the filter of cursor c
MatchingItems(c) == { a \in Allocated : Satisfies(c.type, c.label, item[a].info) }

Range(q) == { q[k] : k \in 1..Len(q) }

NoDuplicates(q) == \A j, k \in 1..Len(q) : q[j] = q[k] => j = k

\* caller p's find / next chain has ended: the last call returned NULL for a
\* cursor that iterator_create had built
EnumerationEnded(p) == pc[p] = "idle" /\ ret[p] = "NULL" /\ it[p].mem # "null"

\* nobody is inside the descriptor loop and one load has returned ESP_OK
LoadComplete == loads >= 1 /\ \A p \in Callers : pc[p] # "l199"

\* C1: with N valid descriptors followed by an invalid one and the filter
\* (major 0, wildcard minor, no label) that all of them satisfy, the k-th
\* record yielded is the k-th descriptor on flash, and exactly N are yielded
\* before the call that returns none.
C1_OnFlashOrder ==
    \A p \in Callers :
        (/\ it[p].mem # "null" /\ it[p].type = 255 /\ it[p].label = NoLabel
         /\ op[p] # "find_first" /\ ret[p] # "rec"
         /\ ValidCount < MaxSlots
         /\ \A a \in 1..ValidCount : flash[a].type = 0)
        => /\ \A k \in 1..Len(yielded[p]) : yielded[p][k] = k
           /\ EnumerationEnded(p) => Len(yielded[p]) = ValidCount

\* C2: load_partitions returns ESP_OK at most once in the process, whatever
\* the table holds.
C2_SingleLoad == loads <= 1

\* C3: a cursor handed out by esp_partition_find yields every record of the
\* fully loaded table that matches its filter, also when it was created
\* while another caller's load was in progress.
C3_CompleteList ==
    \A p \in Callers :
        EnumerationEnded(p) => Range(yielded[p]) = MatchingItems(it[p])

\* C4: whenever find or next has returned NULL, the cursor involved has been
\* freed.
C4_ReleasedOnNone ==
    \A p \in Callers :
        (pc[p] = "idle" /\ ret[p] = "NULL") => it[p].mem # "alloc"

\* C5: esp_partition_iterator_release on a NULL, exhausted or already
\* released cursor never frees cursor memory a second time.
C5_ReleaseIsSafe == \A p \in Callers : it[p].ub # "dfree"

\* C6: esp_partition_next on a cursor for which it already returned NULL
\* never reads or writes freed cursor memory.
C6_NoUseAfterFree == \A p \in Callers : it[p].ub # "uaf"

\* C7: for a cursor created on the loaded table, the records yielded by find
\* and next until none are exactly the records of the table that satisfy the
\* filter (major equal; minor equal unless the requested minor is 0xFF; label
\* equal when one is requested), each yielded once; a filter that no record
\* satisfies yields nothing.
C7_YieldsExactlyMatches ==
    \A p \in Callers :
        (it[p].mem # "null" /\ start[p] = head /\ pc[p] \in {"idle", "n100", "n101"})
        => /\ Range(yielded[p]) \subseteq MatchingItems(it[p])
           /\ NoDuplicates(yielded[p])
           /\ EnumerationEnded(p) => Range(yielded[p]) = MatchingItems(it[p])
           /\ (ret[p] = "it" /\ pc[p] = "idle")
                  => it[p].info = yielded[p][Len(yielded[p])]

C7_Witness ==
    \E p \in Callers :
        /\ EnumerationEnded(p) /\ start[p] = head
        /\ Len(yielded[p]) = 2
        /\ it[p].type = 255

\* C8: esp_partition_find_first returns the matching record with the lowest
\* on-flash position and never leaves the caller a live cursor.
C8_FirstOnFlash ==
    \A p \in Callers :
        (pc[p] = "idle" /\ ret[p] = "rec")
        => /\ hs[p] = "none" /\ it[p].mem = "freed"
           /\ it[p].info \in MatchingItems(it[p])
           /\ \A a \in MatchingItems(it[p]) : it[p].info <= a

\* C9: after a successful load the list holds exactly one record for each
\* slot before the first slot with a wrong magic, with address, size and
\* (type << 8) | subtype copied and encrypted false, and none for that slot
\* or a later one; with a wrong magic in the first slot the list is empty
\* and find returns none with err = ESP_OK.
C9_LoadedRecords ==
    /\ LoadComplete =>
          /\ Allocated = 1..ValidCount
          /\ Range(PartitionList) = Allocated
          /\ Len(PartitionList) = ValidCount
          /\ \A a \in Allocated :
                /\ item[a].info.address = flash[a].pos.offset
                /\ item[a].info.size = flash[a].pos.size
                /\ item[a].info.type = flash[a].type * 256 + flash[a].subtype
                /\ item[a].info.encrypted = FALSE
    /\ ValidCount = 0 =>
          /\ head = NULL
          /\ \A p \in Callers :
                /\ ret[p] \in {"-", "NULL"}
                /\ pc[p] = "l219" => Allocated = {}
                /\ (pc[p] = "f77" /\ lit[p] # 0) => err[p] = "ESP_OK"

C9_Witness ==
    /\ LoadComplete
    /\ flash[1].magic = ESP_PARTITION_MAGIC
    /\ flash[2].magic # ESP_PARTITION_MAGIC
    /\ flash[3].magic = ESP_PARTITION_MAGIC
    /\ PartitionList = <<1>>

\* C10: when spi_flash_mmap fails, find returns NULL to that caller without
\* creating a cursor, the list stays empty and nothing stays mapped or
\* locked; a later find enters load_partitions again, and a load whose
\* mapping succeeds returns ESP_OK.
C10_MapFailure ==
    [][\A p \in Callers :
         /\ (pc[p] = "l188" /\ pc'[p] = "f77")
               => /\ err'[p] # "ESP_OK"
                  /\ head = NULL /\ head' = NULL /\ item' = item
                  /\ ~mapped'[p]
         /\ (pc[p] = "f77" /\ err[p] # "ESP_OK" /\ pc'[p] # "f77")
               => /\ pc'[p] = "idle" /\ ret'[p] = "NULL"
                  /\ it'[p].mem = "null"
                  /\ head' = NULL /\ Allocated = {} /\ lock' = 0
         /\ (pc[p] = "f72" /\ pc'[p] # "f72" /\ head = NULL)
               => pc'[p] = "l188"
         /\ (pc[p] = "l188" /\ pc'[p] = "l199")
               => mapped'[p] /\ err'[p] = "ESP_OK"
         /\ (pc[p] = "l219" /\ pc'[p] # "l219")
               => pc'[p] = "f77" /\ err'[p] = "ESP_OK"
      ]_vars

\* a caller was refused by a failed mapping and the table was loaded later
C10_Witness ==
    \E p \in Callers :
        /\ pc[p] = "idle" /\ ret[p] = "NULL" /\ it[p].mem = "null"
        /\ head # NULL /\ LoadComplete

\* the program points inside load_partitions after spi_flash_mmap succeeded
InLoadMapped(p) == pc[p] \in {"l199", "l219"}

\* C11: a caller holds a mapping exactly while it is inside load_partitions
\* past a successful spi_flash_mmap: no mapping is outstanding once the load
\* has returned (by failure of the mapping or after spi_flash_munmap) or
\* while no load is in progress, spi_flash_munmap (reached at line 219 only)
\* always releases a mapping that exists, and a load that is about to map
\* holds none.
C11_MapUnmapPaired ==
    \A p \in Callers : mapped[p] <=> InLoadMapped(p)

\* one caller is back from a load that mapped and unmapped, holding the
\* lock, while the other caller once saw its mapping fail
C11_Witness ==
    \E p, q \in Callers :
        /\ pc[p] = "f77" /\ lit[p] # 0 /\ err[p] = "ESP_OK" /\ ~mapped[p]
        /\ q # p /\ pc[q] = "idle" /\ op[q] = "none" /\ ret[q] = "NULL"
        /\ it[q].mem = "null" /\ ~mapped[q]

\* a load has returned ESP_OK and left records in the list
LoadedNonEmpty == loads >= 1 /\ head # NULL

\* C12: once a load has completed with a non-empty table, no step of any
\* caller (find, find_first, next, an accessor, release) changes the list:
\* its head, the records and their links stay as they are.
C12_TableFrozen ==
    [][LoadedNonEmpty => (head' = head /\ item' = item)]_vars

\* after the load one caller has enumerated two records with find and next
\* and the other has released a cursor
C12_Witness ==
    /\ LoadedNonEmpty
    /\ \E p, q \in Callers :
        /\ p # q
        /\ pc[p] = "idle" /\ Len(yielded[p]) >= 2
        /\ pc[q] = "idle" /\ hs[q] = "released"

InLoad(p) == pc[p] \in {"l188", "l199", "l219"}

\* C14: in every interleaving, a step that changes the partition list is a
\* step of the descriptor loop of load_partitions taken by the caller that
\* holds s_partition_list_lock before and after it, every caller inside
\* load_partitions holds the lock, and so at most one caller is inside
\* load_partitions at a time.
C14_ListWrittenUnderLock ==
    [][ /\ (head' # head \/ item' # item) =>
             \E p \in Callers :
                 /\ lock = p /\ pc[p] = "l199"
                 /\ lock' = p /\ pc'[p] = "l199"
                 /\ \A q \in Callers \ {p} : pc'[q] = pc[q]
        /\ \A p \in Callers : InLoad(p) => lock = p
        /\ \A p \in Callers : InLoad(p)' => lock' = p
        /\ Cardinality({p \in Callers : InLoad(p)'}) <= 1 ]_vars

\* one caller has added a record and is still in the descriptor loop while
\* the other caller, having seen the list empty, waits for the lock
C14_Witness ==
    \E p, q \in Callers :
        /\ pc[p] = "l199" /\ lit[p] >= 2 /\ head # NULL /\ lock = p
        /\ q # p /\ pc[q] = "f72"

\* C15: no caller is outside a call while it holds s_partition_list_lock
\* (the lock is released on every exit path, also when the load fails or no
\* record matches), and under fair scheduling every call of
\* esp_partition_find, esp_partition_find_first or esp_partition_next by
\* either of the concurrent callers eventually returns.
C15_LockReleasedAndReturns ==
    /\ [](\A p \in Callers : pc[p] = "idle" => lock # p)
    /\ \A p \in Callers : (pc[p] # "idle") ~> (pc[p] = "idle")

\* a call has returned NULL after a failed load while the other caller,
\* which waited for the lock meanwhile, now holds it
C15_Witness ==
    \E p, q \in Callers :
        /\ pc[p] = "idle" /\ op[p] = "none" /\ ret[p] = "NULL" /\ it[p].mem = "null"
        /\ q # p /\ lock = q /\ pc[q] \in {"l188", "f77", "n101"}

\* C16: every descriptor slot the loop of load_partitions reads lies inside
\* the region requested from spi_flash_mmap, [MapBase, MapBase +
\* SPI_FLASH_SEC_SIZE), for every table address and every number of valid
\* descriptors.
C16_ReadsInsideMapping ==
    \A p \in Callers :
        (pc[p] = "l199" /\ lit[p] <= MaxSlots) =>
            /\ mapped[p]
            /\ MapBase <= SlotAddr(lit[p])
            /\ SlotAddr(lit[p]) + DescriptorSize <= MapEnd

\* caller p holds a cursor that a call returned and that it has not released
HoldsCursor(p) == pc[p] = "idle" /\ hs[p] = "live"

\* C17: in every interleaving, a cursor that esp_partition_find or
\* esp_partition_next returned and the caller still holds is allocated and
\* points at a current record that is an item of the list and satisfies the
\* cursor's own type and label filter, and no accessor applied to such a
\* cursor dereferences an absent record.
C17_ReturnedCursorHoldsRecord ==
    \A p \in Callers :
        /\ pc[p] # "fault"
        /\ HoldsCursor(p) =>
               /\ ret[p] = "it"
               /\ it[p].mem = "alloc"
               /\ it[p].info # NULL
               /\ it[p].info \in Range(PartitionList)
               /\ item[it[p].info].alloc
               /\ Satisfies(it[p].type, it[p].label, item[it[p].info].info)

\* a caller holds a cursor with a label filter that esp_partition_next
\* returned, while the other caller holds a cursor of its own
C17_Witness ==
    \E p, q \in Callers :
        /\ HoldsCursor(p) /\ Len(yielded[p]) >= 2 /\ it[p].label = StrA
        /\ q # p /\ HoldsCursor(q) /\ it[q].info # it[p].info

====
